---- MODULE Spec2Model ----
(***************************************************************************)
(* konekielivelho.py: a TITO (Finnish bank statement) to CSV converter.    *)
(*                                                                         *)
(* A text is a sequence of one-character strings.  Indices named i, j and  *)
(* the slice bounds are the 0-based values of the Python source; At and    *)
(* Slice translate them to the 1-based sequences of TLA+.                  *)
(***************************************************************************)
EXTENDS Integers, Sequences, FiniteSets, TLC

VARIABLES
    pc,            \* position of main(): read, normalize, scan, lookahead,
                   \* header, rows, done, error (classify: no run of main)
    filecontents,  \* main: filecontents
    contents,      \* main: contents, the list of normalized lines
    transactions,  \* main: transactions, the list of groups
    i,             \* main: index of the for loop over contents
    j,             \* main: lookahead index
    transaction,   \* main: the group being collected
    payments,      \* main: the Payments the lazy map has yielded so far
    outfile,       \* the file named by --output: [exists, rows]
    stdout,        \* what print() has written
    error,         \* the exception that ended the run, or "none"
    line,          \* the classifier on its own: the line it is given
    verdict        \* the classifier on its own: the three predicates' answers

vars == <<pc, filecontents, contents, transactions, i, j,
          transaction, payments, outfile, stdout, error, line, verdict>>

mainvars == <<pc, filecontents, contents, transactions, i, j,
              transaction, payments, outfile, stdout, error>>

(***************************************************************************)
(* Bounds of the model.                                                    *)
(***************************************************************************)
MaxLines == 4      \* lines in the input file
MaxFrags == 3      \* fragments in a line given to the classifier on its own

(***************************************************************************)
(* Python string primitives.                                               *)
(***************************************************************************)
Min(S) == CHOOSE x \in S : \A y \in S : x <= y
Max(S) == CHOOSE x \in S : \A y \in S : x >= y

\* seq[idx] for a 0-based idx
At(seq, idx) == seq[idx + 1]

\* s[a:b] for 0 <= a <= b; a slice past the end is cut, never an error
Slice(s, a, b) == SubSeq(s, a + 1, IF b < Len(s) THEN b ELSE Len(s))

\* s[a::]
SliceFrom(s, a) == SubSeq(s, a + 1, Len(s))

\* the whitespace str.strip() removes that a line can still hold
Whitespace == {" ", "\t"}

\* s.strip()
Strip(s) ==
    LET keep == {k \in 1..Len(s) : s[k] \notin Whitespace}
    IN  IF keep = {} THEN <<>> ELSE SubSeq(s, Min(keep), Max(keep))

\* s.lstrip(c) for one character c
LStrip(s, c) ==
    LET keep == {k \in 1..Len(s) : s[k] # c}
    IN  IF keep = {} THEN <<>> ELSE SubSeq(s, Min(keep), Len(s))

\* s.startswith(prefix)
StartsWith(s, prefix) ==
    /\ Len(s) >= Len(prefix)
    /\ \A k \in 1..Len(prefix) : s[k] = prefix[k]

\* sep.join(parts) for a one-character sep
RECURSIVE Join(_, _)
Join(parts, sep) ==
    IF parts = <<>> THEN <<>>
    ELSE IF Len(parts) = 1 THEN parts[1]
    ELSE parts[1] \o <<sep>> \o Join(Tail(parts), sep)

\* text.splitlines(): a line ends at each line break; what follows the last
\* break is a line only when it is not empty.  The file is read in text mode,
\* which leaves "\n" as the only line break of the samples.
splitlines(text) ==
    LET brk   == {p \in 1..Len(text) : text[p] = "\n"}
        nth(k) == CHOOSE p \in brk : Cardinality({q \in brk : q <= p}) = k
        n     == Cardinality(brk)
        last  == IF n = 0 THEN 0 ELSE Max(brk)
        whole == [k \in 1..n |->
                    SubSeq(text, IF k = 1 THEN 1 ELSE nth(k - 1) + 1, nth(k) - 1)]
    IN  IF last < Len(text)
        THEN Append(whole, SubSeq(text, last + 1, Len(text)))
        ELSE whole

UpperCase == <<"A", "B", "C", "D", "E", "F", "G", "H", "I", "J", "K", "L", "M",
               "N", "O", "P", "Q", "R", "S", "T", "U", "V", "W", "X", "Y", "Z",
               "Ä", "Ö", "Å">>
LowerCase == <<"a", "b", "c", "d", "e", "f", "g", "h", "i", "j", "k", "l", "m",
               "n", "o", "p", "q", "r", "s", "t", "u", "v", "w", "x", "y", "z",
               "ä", "ö", "å">>

\* the case folding of re.IGNORECASE
UpperSet == {UpperCase[k] : k \in DOMAIN UpperCase}
LowerOf == [c \in UpperSet |-> LowerCase[CHOOSE k \in DOMAIN UpperCase : UpperCase[k] = c]]
Lower(c) == IF c \in UpperSet THEN LowerOf[c] ELSE c

(***************************************************************************)
(* The regular expressions of BankEventType, and re.match.                 *)
(* A pattern is a sequence of tokens: bol, eol (the two anchors), lit (a   *)
(* character), dot (any character) and star (any run of characters).  An   *)
(* alternation is a set of patterns.                                       *)
(***************************************************************************)
Bol  == [t |-> "bol",  c |-> ""]
Eol  == [t |-> "eol",  c |-> ""]
Dot  == [t |-> "dot",  c |-> ""]
Star == [t |-> "star", c |-> ""]
Lits(word) == [k \in DOMAIN word |-> [t |-> "lit", c |-> word[k]]]

\* where a .* starting at p has to stop: "." matches anything but "\n"
StarLimit(s, p) ==
    LET nl == {q \in p..Len(s) : s[q] = "\n"}
    IN  IF nl = {} THEN Len(s) + 1 ELSE Min(nl)

\* does pat from token t on match s at 1-based position p?  (re.MULTILINE
\* is set on both patterns; ignorecase is re.IGNORECASE.)
RECURSIVE MatchAt(_, _, _, _, _)
MatchAt(pat, ignorecase, t, s, p) ==
    IF t > Len(pat) THEN TRUE
    ELSE LET tok == pat[t] IN
         CASE tok.t = "lit" ->
                /\ p <= Len(s)
                /\ IF ignorecase THEN Lower(s[p]) = Lower(tok.c) ELSE s[p] = tok.c
                /\ MatchAt(pat, ignorecase, t + 1, s, p + 1)
           [] tok.t = "dot" ->
                /\ p <= Len(s)
                /\ s[p] # "\n"
                /\ MatchAt(pat, ignorecase, t + 1, s, p + 1)
           [] tok.t = "star" ->
                \E q \in p..StarLimit(s, p) : MatchAt(pat, ignorecase, t + 1, s, q)
           [] tok.t = "bol" ->
                /\ (IF p = 1 THEN TRUE ELSE s[p - 1] = "\n")
                /\ MatchAt(pat, ignorecase, t + 1, s, p)
           [] tok.t = "eol" ->
                /\ (IF p = Len(s) + 1 THEN TRUE ELSE s[p] = "\n")
                /\ MatchAt(pat, ignorecase, t + 1, s, p)

\* re.match(matcher, string): a match that starts at the start of string
re_match(matcher, string) ==
    \E pat \in matcher.alternatives : MatchAt(pat, matcher.ignorecase, 1, string, 1)

TRANSACTION == <<"T", "1", "0">>
SPECIFICATION_CODE == <<"T", "1", "1">>

\* r'^T11...00.*$', flags=re.MULTILINE
DESCRIPTION_MATCHER ==
    [alternatives |->
        {<<Bol>> \o Lits(SPECIFICATION_CODE) \o <<Dot, Dot, Dot>>
               \o Lits(<<"0", "0">>) \o <<Star, Eol>>},
     ignorecase |-> FALSE]

PALVELUMAKSU == <<"P", "A", "L", "V", "E", "L", "U", "M", "A", "K", "S", "U">>
ITSEPALVELU  == <<"I", "T", "S", "E", "P", "A", "L", "V", "E", "L", "U">>
LIPAS        == <<"L", "I", "P", "A", "S">>

\* the pattern compiled without re.IGNORECASE
NOT_INTERESTING_MATCHER_cased ==
    [alternatives |->
        {<<Bol, Star>> \o Lits(PALVELUMAKSU) \o <<Star, Eol>>,
         <<Bol, Star>> \o Lits(<<"S">>) \o <<Star>> \o Lits(<<"S", "T">>)
                       \o <<Star>> \o Lits(LIPAS) \o <<Star, Eol>>,
         <<Bol, Star>> \o Lits(ITSEPALVELU) \o <<Star, Eol>>},
     ignorecase |-> FALSE]

\* r'^.*(PALVELUMAKSU|S.*ST.*LIPAS|ITSEPALVELU).*$', re.IGNORECASE | re.MULTILINE
NOT_INTERESTING_MATCHER ==
    [alternatives |->
        {<<Bol, Star>> \o Lits(PALVELUMAKSU) \o <<Star, Eol>>,
         <<Bol, Star>> \o Lits(<<"S">>) \o <<Star>> \o Lits(<<"S", "T">>)
                       \o <<Star>> \o Lits(LIPAS) \o <<Star, Eol>>,
         <<Bol, Star>> \o Lits(ITSEPALVELU) \o <<Star, Eol>>},
     ignorecase |-> TRUE]

\* is_transaction testing two characters of the type code only
is_transaction_loose(string) == StartsWith(string, <<"T", "1">>)

is_transaction(string) == StartsWith(string, TRANSACTION)

is_description(string) == re_match(DESCRIPTION_MATCHER, string)

is_interesting(string) == ~ re_match(NOT_INTERESTING_MATCHER, string)

(***************************************************************************)
(* datetime.strptime(s, '%y%m%d') and int(s).                              *)
(***************************************************************************)
DigitChars == <<"0", "1", "2", "3", "4", "5", "6", "7", "8", "9">>
IsDigit(c) == \E k \in DOMAIN DigitChars : DigitChars[k] = c
DigitVal(c) == (CHOOSE k \in DOMAIN DigitChars : DigitChars[k] = c) - 1
IsDigitAt(s, p) == p <= Len(s) /\ IsDigit(s[p])
InRangeAt(s, p, lo, hi) == IsDigitAt(s, p) /\ DigitVal(s[p]) \in lo..hi

\* the number a run of digits denotes
RECURSIVE DigitsValue(_, _)
DigitsValue(s, acc) ==
    IF s = <<>> THEN acc ELSE DigitsValue(Tail(s), acc * 10 + DigitVal(s[1]))

\* %m is (1[0-2]|0[1-9]|[1-9]): the lengths of the alternatives that match
\* at p, in the order the regex engine tries them
MonthLens(s, p) ==
    (IF \/ (InRangeAt(s, p, 1, 1) /\ InRangeAt(s, p + 1, 0, 2))
        \/ (InRangeAt(s, p, 0, 0) /\ InRangeAt(s, p + 1, 1, 9))
     THEN <<2>> ELSE <<>>)
    \o (IF InRangeAt(s, p, 1, 9) THEN <<1>> ELSE <<>>)

\* %d is (3[01]|[12]\d|0[1-9]|[1-9]| [1-9]): the length of the first
\* alternative that matches at p, 0 when none does
DayLen(s, p) ==
    IF \/ (InRangeAt(s, p, 3, 3) /\ InRangeAt(s, p + 1, 0, 1))
       \/ (InRangeAt(s, p, 1, 2) /\ IsDigitAt(s, p + 1))
       \/ (InRangeAt(s, p, 0, 0) /\ InRangeAt(s, p + 1, 1, 9))
    THEN 2
    ELSE IF InRangeAt(s, p, 1, 9) THEN 1
    ELSE IF p <= Len(s) /\ s[p] = " " /\ InRangeAt(s, p + 1, 1, 9) THEN 2
    ELSE 0

IsLeap(year) == year % 4 = 0 /\ (year % 100 # 0 \/ year % 400 = 0)

DaysIn(year, month) ==
    IF month = 2 THEN (IF IsLeap(year) THEN 29 ELSE 28)
    ELSE IF month \in {4, 6, 9, 11} THEN 30 ELSE 31

NoDate == [ok |-> FALSE, year |-> 0, month |-> 0, day |-> 0]

\* datetime.strptime(s, '%y%m%d'): ok is FALSE where it raises ValueError
strptime(s) ==
    IF ~ (IsDigitAt(s, 1) /\ IsDigitAt(s, 2)) THEN NoDate
    ELSE
    LET fits == SelectSeq(MonthLens(s, 3), LAMBDA ml : DayLen(s, 3 + ml) > 0)
    IN  IF fits = <<>> THEN NoDate
        ELSE
        LET ml == fits[1]
            dl == DayLen(s, 3 + ml)
            yy == DigitsValue(SubSeq(s, 1, 2), 0)
            year  == IF yy <= 68 THEN 2000 + yy ELSE 1900 + yy
            month == DigitsValue(SubSeq(s, 3, 2 + ml), 0)
            day   == DigitsValue(SelectSeq(SubSeq(s, 3 + ml, 2 + ml + dl), IsDigit), 0)
        IN  IF 2 + ml + dl # Len(s) THEN NoDate           \* unconverted data remains
            ELSE IF day > DaysIn(year, month) THEN NoDate \* day is out of range
            ELSE [ok |-> TRUE, year |-> year, month |-> month, day |-> day]

\* int(s): an optional sign, then digits, single underscores between them
int(s) ==
    LET signed == s # <<>> /\ s[1] \in {"+", "-"}
        body   == IF signed THEN Tail(s) ELSE s
        wellformed ==
            /\ body # <<>>
            /\ \A k \in 1..Len(body) : IsDigit(body[k]) \/ body[k] = "_"
            /\ IsDigit(body[1]) /\ IsDigit(body[Len(body)])
            /\ \A k \in 1..(Len(body) - 1) : ~ (body[k] = "_" /\ body[k + 1] = "_")
        value  == DigitsValue(SelectSeq(body, IsDigit), 0)
    IN  IF ~ wellformed THEN [ok |-> FALSE, value |-> 0]
        ELSE [ok |-> TRUE,
              value |-> IF signed /\ s[1] = "-" THEN 0 - value ELSE value]

(***************************************************************************)
(* Payment.                                                                *)
(***************************************************************************)
DICT_FIELDS == <<"datetime", "amount", "payer", "reference", "message">>

\* Payment(): the defaults of __init__
NewPayment ==
    [datetime |-> <<1970, 1, 1>>, amount |-> 0, payer |-> <<>>,
     reference |-> <<>>, message |-> <<>>]

\* re.sub(r'[,.]', '', s)
StripSeparators(s) == SelectSeq(s, LAMBDA c : c \notin {",", "."})

\* parse_message reading the message two columns early
parse_message_offset6(msg_string) ==
    IF Len(msg_string) <= 6 THEN <<>> ELSE Strip(SliceFrom(msg_string, 6))

parse_message(msg_string) ==
    IF Len(msg_string) <= 8 THEN <<>> ELSE Strip(SliceFrom(msg_string, 8))

\* build_message leaving the empty fragments out
build_message_dropEmpty(rows) ==
    Join(SelectSeq([k \in 1..(Len(rows) - 1) |-> parse_message(rows[k + 1])],
                   LAMBDA f : f # <<>>), "\n")

\* '\n'.join(map(parse_message, rows[1::]))
build_message(rows) ==
    Join([k \in 1..(Len(rows) - 1) |-> parse_message(rows[k + 1])], "\n")

\* payment_row[42:48].strip()
str_datetime(payment_row) == Strip(Slice(payment_row, 42, 48))

\* re.sub(r'[,.]', '', payment_row[87:106].strip())
str_amount(payment_row) == StripSeparators(Strip(Slice(payment_row, 87, 106)))

\* Payment.parse_from_list(rows): ok is FALSE where strptime or int raises
parse_from_list(rows) ==
    LET payment_row   == rows[1]
        str_payer     == Strip(Slice(payment_row, 108, 143))
        str_reference == LStrip(Strip(Slice(payment_row, 160, 179)), "0")
        date   == strptime(str_datetime(payment_row))
        amount == int(str_amount(payment_row))
    IN  IF ~ date.ok \/ ~ amount.ok
        THEN [ok |-> FALSE, payment |-> NewPayment]
        ELSE [ok |-> TRUE,
              payment |->
                [datetime  |-> <<date.year, date.month, date.day>>,
                 amount    |-> amount.value,
                 payer     |-> str_payer,
                 reference |-> str_reference,
                 message   |-> IF Len(rows) > 1 THEN build_message(rows)
                               ELSE NewPayment.message]]

(***************************************************************************)
(* convert_ascii_alphabets.                                                *)
(***************************************************************************)
substitutions ==
    <<<<"]", "Å">>, <<"[", "Ä">>, <<"\\", "Ö">>,
      <<"}", "å">>, <<"{", "ä">>, <<"|", "ö">>>>

\* re.sub(s[0], s[1], string) for a one-character pattern
Substitute(string, s) == [k \in DOMAIN string |-> IF string[k] = s[1] THEN s[2] ELSE string[k]]

RECURSIVE ApplySubstitutions(_, _)
ApplySubstitutions(string, subs) ==
    IF subs = <<>> THEN string
    ELSE ApplySubstitutions(Substitute(string, subs[1]), Tail(subs))

convert_ascii_alphabets(string) == ApplySubstitutions(string, substitutions)

(***************************************************************************)
(* Input: statement files of up to MaxLines lines, each line one of a few  *)
(* TITO records laid out in the columns parse_from_list reads.             *)
(***************************************************************************)
Pad(s, width) == s \o [k \in 1..(width - Len(s)) |-> " "]

\* a T10 record: date at column 42, amount at 87, payer at 108, reference
\* at 160
TxLine(date, amount, payer, reference) ==
    Pad(TRANSACTION, 42) \o Pad(date, 45) \o Pad(amount, 21)
        \o Pad(payer, 52) \o Pad(reference, 20)

TxOk ==
    TxLine(<<"1", "5", "0", "4", "0", "1">>,
           <<"0", "0", "0", "0", "0", "0", "0", "0", "1", "2", "3", "4">>,
           <<"J", "O", "H", "N", " ", "D", "O", "E">>,
           <<"0", "0", "0", "0", "1", "2", "3">>)

\* 31 February
TxBadDate ==
    TxLine(<<"1", "5", "0", "2", "3", "1">>,
           <<"1", ",", "2", "3", "4", ".", "5", "6">>,
           <<"M", "{", "K", "I">>,
           <<"0">>)

TxBadAmount ==
    TxLine(<<"1", "6", "0", "2", "2", "9">>,
           <<"1", "2", "A", "4">>,
           <<"J", "A", "N", "E">>,
           <<>>)

\* a service fee, which the scan suppresses
TxFee == TRANSACTION \o <<" ">> \o <<"P", "a", "l", "v", "e", "l", "u", "m", "a", "k", "s", "u">>

\* a T11 record of sub-code 00 with a message, written in ISO 646
DescLong ==
    SPECIFICATION_CODE \o <<" ", " ", " ", "0", "0">>
        \o <<" ", "H", "e", "i", " ", "{", "i", "t", "i", " ">>

\* a T11 record of sub-code 00 that ends where the message would start
DescShort == SPECIFICATION_CODE \o <<"A", "B", "C", "0", "0">>

Balance == <<"T", "4", "0", " ", "1">>

SampleLines == {TxOk, TxBadDate, TxBadAmount, TxFee, DescLong, DescShort, Balance}

\* the text of a file of these lines, with or without a final line break
FileOf(lines, final) == Join(lines, "\n") \o (IF final THEN <<"\n">> ELSE <<>>)

InputFiles ==
    {FileOf(ls, final) :
        <<ls, final>> \in
            {x \in (UNION {[1..n -> SampleLines] : n \in 0..MaxLines}) \X BOOLEAN :
                x[1] = <<>> => ~ x[2]}}

NoVerdict == [is_transaction |-> FALSE, is_description |-> FALSE,
              is_interesting |-> FALSE, done |-> FALSE]

Init ==
    /\ pc = "read"
    /\ filecontents = <<>>
    /\ contents = <<>>
    /\ transactions = <<>>
    /\ i = 0
    /\ j = 0
    /\ transaction = <<>>
    /\ payments = <<>>
    /\ outfile = [exists |-> FALSE, rows |-> <<>>]
    /\ stdout = <<>>
    /\ error = "none"
    /\ line = <<>>
    /\ verdict = NoVerdict

(***************************************************************************)
(* main().                                                                 *)
(***************************************************************************)
\* with open(options.input, mode='r') as f: filecontents = f.read()
\* (the input file is taken to exist, and the output file to be writable)
ReadInput ==
    /\ pc = "read"
    /\ filecontents' \in InputFiles
    /\ pc' = "normalize"
    /\ UNCHANGED <<contents, transactions, i, j, transaction,
                   payments, outfile, stdout, error, line, verdict>>

\* contents = convert_ascii_alphabets(filecontents).splitlines();
\* transactions = []
Normalize ==
    /\ pc = "normalize"
    /\ contents' = splitlines(convert_ascii_alphabets(filecontents))
    /\ transactions' = <<>>
    /\ i' = 0
    /\ pc' = "scan"
    /\ UNCHANGED <<filecontents, j, transaction, payments, outfile,
                   stdout, error, line, verdict>>

\* the lines a sample file holds once it is normalized
KnownLines == {convert_ascii_alphabets(l) : l \in SampleLines}

\* is_interesting, evaluated once for each of these lines
InterestingLine == [v \in KnownLines |-> is_interesting(v)]

\* the condition without its is_interesting half
Seeds_unfiltered(v) == is_transaction(v)

\* the condition of the if in the for loop
Seeds(v) == is_transaction(v) /\ InterestingLine[v]

\* for (i, v): v is not an interesting transaction, the next line is tried
ScanSkip ==
    /\ pc = "scan"
    /\ i < Len(contents)
    /\ ~ Seeds(At(contents, i))
    /\ i' = i + 1
    /\ UNCHANGED <<pc, filecontents, contents, transactions, j,
                   transaction, payments, outfile, stdout, error, line, verdict>>

\* for (i, v): v starts a group; j = i
ScanSeed ==
    /\ pc = "scan"
    /\ i < Len(contents)
    /\ Seeds(At(contents, i))
    /\ transaction' = <<At(contents, i)>>
    /\ j' = i
    /\ pc' = "lookahead"
    /\ UNCHANGED <<filecontents, contents, transactions, i, payments,
                   outfile, stdout, error, line, verdict>>

\* while True: j += 1; contents[j] is a description line and joins the group
LookaheadAppend ==
    /\ pc = "lookahead"
    /\ j + 1 < Len(contents)
    /\ is_description(At(contents, j + 1))
    /\ j' = j + 1
    /\ transaction' = Append(transaction, At(contents, j + 1))
    /\ UNCHANGED <<pc, filecontents, contents, transactions, i,
                   payments, outfile, stdout, error, line, verdict>>

\* LookaheadBreak appending the line that ends the run before it breaks
LookaheadBreak_keepsLast ==
    /\ pc = "lookahead"
    /\ j + 1 < Len(contents)
    /\ ~ is_description(At(contents, j + 1))
    /\ j' = j + 1
    /\ transactions' = Append(transactions, Append(transaction, At(contents, j + 1)))
    /\ i' = i + 1
    /\ pc' = "scan"
    /\ UNCHANGED <<filecontents, contents, transaction, payments,
                   outfile, stdout, error, line, verdict>>

\* while True: j += 1; contents[j] is no description line: break, the group
\* is appended to transactions and the for loop goes on after line i
LookaheadBreak ==
    /\ pc = "lookahead"
    /\ j + 1 < Len(contents)
    /\ ~ is_description(At(contents, j + 1))
    /\ j' = j + 1
    /\ transactions' = Append(transactions, transaction)
    /\ i' = i + 1
    /\ pc' = "scan"
    /\ UNCHANGED <<filecontents, contents, transaction, payments,
                   outfile, stdout, error, line, verdict>>

\* while True: j += 1; contents[j] with j = len(contents) raises IndexError,
\* which nothing catches
LookaheadIndexError ==
    /\ pc = "lookahead"
    /\ j + 1 >= Len(contents)
    /\ j' = j + 1
    /\ error' = "IndexError"
    /\ pc' = "error"
    /\ UNCHANGED <<filecontents, contents, transactions, i,
                   transaction, payments, outfile, stdout, line, verdict>>

\* the for loop is over and transactions is empty: the notice is printed
NoTransactions ==
    /\ pc = "scan"
    /\ i = Len(contents)
    /\ transactions = <<>>
    /\ stdout' = Append(stdout, [text |-> "no interesting transactions", count |-> 0])
    /\ pc' = "done"
    /\ UNCHANGED <<filecontents, contents, transactions, i, j,
                   transaction, payments, outfile, error, line, verdict>>

\* OpenOutput without the test of transactions
OpenOutput_always ==
    /\ pc = "scan"
    /\ i = Len(contents)
    /\ payments' = <<>>
    /\ outfile' = [exists |-> TRUE, rows |-> <<>>]
    /\ pc' = "header"
    /\ UNCHANGED <<filecontents, contents, transactions, i, j,
                   transaction, stdout, error, line, verdict>>

\* the for loop is over and transactions is not empty:
\* payments = map(Payment.parse_from_list, transactions), which builds
\* nothing yet; open(options.output, mode='w') creates or empties the file
OpenOutput ==
    /\ pc = "scan"
    /\ i = Len(contents)
    /\ transactions # <<>>
    /\ payments' = <<>>
    /\ outfile' = [exists |-> TRUE, rows |-> <<>>]
    /\ pc' = "header"
    /\ UNCHANGED <<filecontents, contents, transactions, i, j,
                   transaction, stdout, error, line, verdict>>

\* writer.writeheader(): the row that maps each field name to itself
WriteHeader ==
    /\ pc = "header"
    /\ outfile' = [outfile EXCEPT !.rows = Append(@, [k \in 1..Len(DICT_FIELDS) |-> DICT_FIELDS[k]])]
    /\ pc' = "rows"
    /\ UNCHANGED <<filecontents, contents, transactions, i, j,
                   transaction, payments, stdout, error, line, verdict>>

\* for p in payments: the map builds the next Payment, writer.writerow(p.__dict__)
WriteRow ==
    /\ pc = "rows"
    /\ Len(payments) < Len(transactions)
    /\ LET built == parse_from_list(transactions[Len(payments) + 1])
       IN  /\ built.ok
           /\ payments' = Append(payments, built.payment)
           /\ outfile' = [outfile EXCEPT !.rows = Append(@, built.payment)]
    /\ UNCHANGED <<pc, filecontents, contents, transactions, i, j,
                   transaction, stdout, error, line, verdict>>

\* WriteRowError with a per-record recovery: the record is skipped
WriteRowError_skips ==
    /\ pc = "rows"
    /\ Len(payments) < Len(transactions)
    /\ ~ parse_from_list(transactions[Len(payments) + 1]).ok
    /\ payments' = Append(payments, NewPayment)
    /\ UNCHANGED <<pc, filecontents, contents, transactions, i, j,
                   transaction, outfile, stdout, error, line, verdict>>

\* for p in payments: building the next Payment raises ValueError, which
\* nothing catches; the with statement closes the file as it is
WriteRowError ==
    /\ pc = "rows"
    /\ Len(payments) < Len(transactions)
    /\ ~ parse_from_list(transactions[Len(payments) + 1]).ok
    /\ error' = "ValueError"
    /\ pc' = "error"
    /\ UNCHANGED <<filecontents, contents, transactions, i, j,
                   transaction, payments, outfile, stdout, line, verdict>>

\* the map is exhausted: the file is closed and the count is printed
Finish ==
    /\ pc = "rows"
    /\ Len(payments) = Len(transactions)
    /\ stdout' = Append(stdout, [text |-> "wrote transactions", count |-> Len(transactions)])
    /\ pc' = "done"
    /\ UNCHANGED <<filecontents, contents, transactions, i, j,
                   transaction, payments, outfile, error, line, verdict>>

Next ==
    \/ ReadInput
    \/ Normalize
    \/ ScanSkip
    \/ ScanSeed
    \/ LookaheadAppend
    \/ LookaheadBreak
    \/ LookaheadIndexError
    \/ NoTransactions
    \/ OpenOutput
    \/ WriteHeader
    \/ WriteRow
    \/ WriteRowError
    \/ Finish

Spec == Init /\ [][Next]_vars

(***************************************************************************)
(* The record classifier on its own: the three predicates applied to one   *)
(* line, for lines put together from up to MaxFrags fragments.             *)
(***************************************************************************)
Fragments ==
    {TRANSACTION,
     SPECIFICATION_CODE \o <<"A", "B", "C">>,
     <<"0", "0">>,
     <<"x">>,
     <<"S">>,
     <<"s", "t">>,
     <<"l", "i", "P", "A", "S">>,
     <<"p", "a", "l", "v", "e", "l", "u", "M", "A", "K", "S", "U">>,
     <<"I", "t", "s", "e", "p", "a", "l", "v", "e", "l", "u">>,
     <<"S", "Ä", "Ä", "S", "T", "Ö", "L", "I", "P", "A", "S">>}

RECURSIVE Concat(_)
Concat(parts) == IF parts = <<>> THEN <<>> ELSE parts[1] \o Concat(Tail(parts))

ClassifierLines ==
    {Concat(fs) : fs \in UNION {[1..n -> Fragments] : n \in 0..MaxFrags}}

InitClassifier ==
    /\ pc = "classify"
    /\ line \in ClassifierLines
    /\ verdict = NoVerdict
    /\ filecontents = <<>>
    /\ contents = <<>>
    /\ transactions = <<>>
    /\ i = 0
    /\ j = 0
    /\ transaction = <<>>
    /\ payments = <<>>
    /\ outfile = [exists |-> FALSE, rows |-> <<>>]
    /\ stdout = <<>>
    /\ error = "none"

Classify ==
    /\ pc = "classify"
    /\ ~ verdict.done
    /\ verdict' = [is_transaction |-> is_transaction(line),
                   is_description |-> is_description(line) ,
                   is_interesting |-> is_interesting(line),
                   done |-> TRUE]
    /\ UNCHANGED <<line, mainvars>>

SpecClassifier == InitClassifier /\ [][Classify]_vars

(***************************************************************************)
(* Properties of the scan.                                                 *)
(***************************************************************************)
ScanComplete ==
    \/ pc = "scan" /\ i = Len(contents)
    \/ pc \in {"header", "rows", "done"}
    \/ error = "ValueError"

\* the 0-based positions of the interesting Transaction lines
SeedPositions ==
    {n \in 0..(Len(contents) - 1) :
        is_transaction(At(contents, n)) /\ InterestingLine[At(contents, n)]}

\* the k-th smallest of the positions in seeds: the position of the line
\* that the for loop makes the seed of the k-th group
NthSeed(seeds, k) ==
    CHOOSE n \in seeds : Cardinality({m \in seeds : m <= n}) = k

\* the positions of the lines of the k-th emitted group
GroupRange(seeds, k) ==
    LET start == NthSeed(seeds, k) IN start..(start + Len(transactions[k]) - 1)

LastLineSeeds ==
    /\ Len(contents) > 0
    /\ is_transaction(contents[Len(contents)])
    /\ InterestingLine[contents[Len(contents)]]

\* C1: when an interesting Transaction line is the last line of the input,
\* the scan raises no boundary error: it ends with that line as a group of
\* size 1, and a run that completes gives that group the message "".
C1_LastTransactionEndsGracefully ==
    LastLineSeeds =>
        /\ error # "IndexError"
        /\ ScanComplete =>
              /\ transactions # <<>>
              /\ transactions[Len(transactions)] = <<contents[Len(contents)]>>
        /\ pc = "done" => payments[Len(payments)].message = <<>>

\* C2: every emitted group is its seed line followed by the maximal
\* contiguous run of description lines after it, in input order, and the line
\* after the group is the first one that fails is_description.
C2_GroupIsMaximalRun ==
    \A seeds \in {SeedPositions} :
    \A k \in 1..Len(transactions) :
        IF k > Cardinality(seeds) THEN FALSE
        ELSE LET start == NthSeed(seeds, k)
                 g     == transactions[k]
             IN  /\ start + Len(g) < Len(contents)
                 /\ \A m \in 1..Len(g) : g[m] = At(contents, start + m - 1)
                 /\ \A m \in 2..Len(g) : is_description(g[m])
                 /\ ~ is_description(At(contents, start + Len(g)))

\* a group of 3 lines has been emitted: a Transaction line, two description
\* lines, and a line after them that is no description line
C2_Witness ==
    /\ pc = "done"
    /\ \E k \in 1..Len(transactions) : Len(transactions[k]) = 3

\* C3: after the scan, the first lines of the groups are the input lines that
\* satisfy is_transaction and is_interesting, in input order.
C3_GroupsAreInterestingTransactions ==
    ScanComplete =>
        [k \in 1..Len(transactions) |-> transactions[k][1]]
            = SelectSeq(contents, LAMBDA v : is_transaction(v) /\ InterestingLine[v])

\* the scan is over with two groups and a suppressed Transaction line
C3_Witness ==
    /\ ScanComplete
    /\ Len(transactions) = 2
    /\ \E n \in 1..Len(contents) :
          is_transaction(contents[n]) /\ ~ InterestingLine[contents[n]]

\* C4: with zero interesting transactions the output file is never opened
\* or written, the run does not fail, and it ends with the notice printed;
\* the output file exists only when there is at least one group.
C4_NoOutputWithoutTransactions ==
    /\ outfile.exists => transactions # <<>>
    /\ \/ pc \in {"read", "normalize"}
       \/ /\ ~ outfile.exists
          /\ outfile.rows = <<>>
          /\ error = "none"
          /\ pc \in {"scan", "done"}
          /\ pc = "done" =>
                stdout = <<[text |-> "no interesting transactions", count |-> 0]>>
       \/ SeedPositions # {}

\* a run over an input whose every Transaction line is suppressed has ended
C4_Witness ==
    /\ pc = "done"
    /\ transactions = <<>>
    /\ \E n \in 1..Len(contents) : is_transaction(contents[n])

\* the date or the amount of a group's first line cannot be parsed
Malformed(payment_row) ==
    \/ ~ strptime(str_datetime(payment_row)).ok
    \/ ~ int(str_amount(payment_row)).ok

\* C5: a group whose date or amount cannot be parsed is never skipped: no
\* Payment and no row is produced for it or for a later group, and the run
\* never ends with the count of written transactions.
C5_MalformedFieldAborts ==
    \A k \in 1..Len(transactions) :
        Malformed(transactions[k][1]) =>
            /\ pc # "done"
            /\ Len(payments) < k
            /\ Len(outfile.rows) <= k
            /\ stdout = <<>>

\* the run has ended in ValueError at a malformed group that follows a
\* well-formed one
C5_Witness ==
    /\ error = "ValueError"
    /\ Len(payments) = 1
    /\ Malformed(transactions[2][1])

\* the group holds nothing but lines too short for a message body
AllShort(g) == \A m \in 2..Len(g) : Len(g[m]) <= 8

\* C6 as stated: the message is empty whenever the group has no continuation
\* line or only continuation lines of 8 characters or fewer.
C6_ShortLinesGiveEmptyMessage ==
    \A k \in 1..Len(payments) :
        AllShort(transactions[k]) => payments[k].message = <<>>

\* C6 as amended: when the group has no continuation line or only
\* continuation lines of 8 characters or fewer, the message holds no text but
\* the separators: one newline less than there are continuation lines, which
\* is the empty string for at most one continuation line.
C6_ShortLinesGiveSeparatorsOnly ==
    \A k \in 1..Len(payments) :
        AllShort(transactions[k]) =>
            payments[k].message =
                [n \in 1..(Len(transactions[k]) - 2) |-> "\n"]

\* a Payment has been built from a group of two short continuation lines
C6_Witness ==
    \E k \in 1..Len(payments) :
        /\ Len(transactions[k]) = 3
        /\ AllShort(transactions[k])

\* the pieces of text between its newlines
Pieces(text) ==
    LET brk    == {p \in 1..Len(text) : text[p] = "\n"}
        n      == Cardinality(brk)
        nth(k) == IF k = 0 THEN 0
                  ELSE IF k = n + 1 THEN Len(text) + 1
                  ELSE CHOOSE p \in brk : Cardinality({q \in brk : q <= p}) = k
    IN  [k \in 1..(n + 1) |-> SubSeq(text, nth(k - 1) + 1, nth(k) - 1)]

\* C7: for a group of k >= 1 continuation lines the message is k fragments
\* in the order of the lines, separated by k-1 newlines; a fragment is empty
\* for a line of 8 characters or fewer, else the trimmed line from offset 8.
C7_OneFragmentPerLine ==
    \A k \in 1..Len(payments) :
        LET g     == transactions[k]
            frags == Pieces(payments[k].message)
        IN  Len(g) > 1 =>
              /\ Len(frags) = Len(g) - 1
              /\ \A n \in 1..(Len(g) - 1) :
                    frags[n] = IF Len(g[n + 1]) <= 8 THEN <<>>
                               ELSE Strip(SubSeq(g[n + 1], 9, Len(g[n + 1])))

\* a Payment has been built from a group whose first continuation line is
\* too short and whose second carries a message
C7_Witness ==
    \E k \in 1..Len(payments) :
        /\ Len(transactions[k]) = 3
        /\ Len(transactions[k][2]) <= 8
        /\ Len(transactions[k][3]) > 8
        /\ payments[k].message # <<"\n">>

\* C9: every group has been built into a Payment before the output file is
\* opened or any row is written, so a run that fails has written no output.
C9_RecordsBuiltBeforeOutput ==
    /\ outfile.exists => Len(payments) = Len(transactions)
    /\ error # "none" => ~ outfile.exists /\ outfile.rows = <<>>

\* C10: no line belongs to two groups, the group being collected included,
\* and no line appended to a group as a description line seeds a group.
C10_NoDoubleCounting ==
    (transactions # <<>> \/ pc = "lookahead") =>
    \A seeds \in {SeedPositions} :
    LET range == [k \in 1..Len(transactions) |->
                    IF k > Cardinality(seeds) THEN {} ELSE GroupRange(seeds, k)]
    IN  /\ Len(transactions) <= Cardinality(seeds)
        /\ \A k1, k2 \in 1..Len(transactions) :
              k1 # k2 => range[k1] \cap range[k2] = {}
        /\ pc = "lookahead" =>
              \A k \in 1..Len(transactions) : range[k] \cap (i..j) = {}
        /\ \A k \in 1..Len(transactions) :
              \A n \in range[k] \ {NthSeed(seeds, k)} : n \notin seeds
        /\ pc = "lookahead" => \A n \in (i + 1)..j : n \notin seeds

\* the scan has emitted two groups, the first with a description line
C10_Witness ==
    /\ Len(transactions) = 2
    /\ Len(transactions[1]) >= 2

(***************************************************************************)
(* Properties of the classifier.                                           *)
(***************************************************************************)
OccursAt(s, word, p) ==
    /\ p + Len(word) - 1 <= Len(s)
    /\ \A k \in 1..Len(word) : Lower(s[p + k - 1]) = Lower(word[k])

\* s contains word, whatever the case of the letters
ContainsCI(s, word) == \E p \in 1..Len(s) : OccursAt(s, word, p)

SAASTOLIPAS == <<"S", "Ä", "Ä", "S", "T", "Ö", "L", "I", "P", "A", "S">>

\* an S, later ST, later LIPAS, with anything in between
WildcardHit(s) ==
    \E a \in 1..Len(s) :
        /\ OccursAt(s, <<"S">>, a)
        /\ \E b \in (a + 1)..Len(s) :
              /\ OccursAt(s, <<"S", "T">>, b)
              /\ \E c \in (b + 2)..Len(s) : OccursAt(s, LIPAS, c)

\* C8 as stated: a line is not interesting iff it contains, whatever the
\* case, one of three fixed fragments.
C8_SuppressedIffFixedFragment ==
    verdict.done =>
        (~ verdict.is_interesting <=>
            \/ ContainsCI(line, PALVELUMAKSU)
            \/ ContainsCI(line, SAASTOLIPAS)
            \/ ContainsCI(line, ITSEPALVELU))

\* C8 as amended: a line is not interesting iff it contains, whatever the
\* case, PALVELUMAKSU or ITSEPALVELU, or an S followed somewhere by ST
\* followed somewhere by LIPAS.
C8_SuppressedIffPattern ==
    verdict.done =>
        (~ verdict.is_interesting <=>
            \/ ContainsCI(line, PALVELUMAKSU)
            \/ ContainsCI(line, ITSEPALVELU)
            \/ WildcardHit(line))

\* a line is suppressed that holds none of the three words
C8_Witness ==
    /\ verdict.done
    /\ ~ verdict.is_interesting
    /\ ~ ContainsCI(line, PALVELUMAKSU)
    /\ ~ ContainsCI(line, SAASTOLIPAS)
    /\ ~ ContainsCI(line, ITSEPALVELU)

====
